---- MODULE Spec2Model ----
(***************************************************************************)
(* Model of src/upload/arduino.js: the Arduino class that compiles a       *)
(* sketch with arduino-builder and flashes it with avrdude, including the  *)
(* 1200-baud touch reset and the rediscovery of the serial port for the    *)
(* Leonardo and the Makey Makey.                                           *)
(*                                                                         *)
(* One instance is modelled.  The promise returned by build()/flash(), the *)
(* spawned child process, its two output pipes, the timers and the         *)
(* callbacks of the injected capabilities are state; every event-loop      *)
(* callback of the source is one action.                                   *)
(*                                                                         *)
(* The caller starts build or flash only when the previous outcome has     *)
(* been delivered.  fs.mkdirSync, osLocale() and spawn itself are taken to *)
(* succeed; fs.writeFileSync, connect, disconnect and list may fail.  A    *)
(* 'data' event may follow the 'exit' event of its process, as the pipes   *)
(* of a child process can outlive it.                                      *)
(***************************************************************************)
EXTENDS Integers, Sequences, FiniteSets, TLC

VARIABLES
    fqbn,            \* this._config.fqbn
    peripheralPath,  \* this._peripheralPath
    leonardoPath,    \* this._leonardoPath
    makeymakeyPath,  \* this._makeymakeyPath
    baudRate,        \* this._peripheralParams.peripheralConfig.config.baudRate
    dirs,            \* directories of the workspace that exist on disk
    codefile,        \* content of this._codefilePath on disk
    locale,          \* what osLocale() resolves to on this host
    ops,             \* operations with callbacks outstanding; the last one is the current one
    sink,            \* texts the handlers of the current operation gave to this._sendstd
    chunks,          \* chunks the 'data' handlers of the current operation received
    trace,           \* calls made by the current operation, in order
    found,           \* paths of the rescanned entries that resolved to the target name
    now,             \* milliseconds elapsed since the current operation started
    exitAt,          \* time of the exit event of the current operation's process
    doneAt           \* time at which the current operation's outcome was delivered

vars == <<fqbn, peripheralPath, leonardoPath, makeymakeyPath, baudRate, dirs,
          codefile, locale, ops, sink, chunks, trace, found, now, exitAt, doneAt>>

----------------------------------------------------------------------------
(* Bounds of the model *)

MaxOps == 2        \* operations whose callbacks are outstanding at one time
MaxChunks == 1     \* chunks one process writes to its pipes
MaxDevices == 2    \* entries of one peripheral list

----------------------------------------------------------------------------
(* Values *)

Null == "null"                 \* JavaScript null / undefined
None == 0 - 1                  \* no time or exit code recorded

LEONARDO == "arduino:avr:leonardo"
MAKEYMAKEY == "SparkFun:avr:makeymakey"
UNO == "arduino:avr:uno"
Fqbns == {LEONARDO, MAKEYMAKEY, UNO}

\* ansi-string colour codes, written as tags
AnsiRed == "<red>"
AnsiClear == "<clear>"
AnsiGreenDark == "<green_dark>"

TOUCH_BAUD == 1200
OPEN_WAIT == 100
CLOSE_WAIT == 1000
SETTLE_WAIT == 1000
PNPID_PREFIX == 21

\* paths computed by the constructor from userDataPath = "/data" and toolsPath = "/tools"
TempfilePath == "/data/arduino/project"
ArduinoPath == "/tools/Arduino"
ArduinoBuilderPath == "/tools/Arduino/arduino-builder"
AvrdudePath == "/tools/Arduino/hardware/tools/avr/bin/avrdude"
AvrdudeConfigPath == "/tools/Arduino/hardware/tools/avr/etc/avrdude.conf"
CodefilePath == "/data/arduino/project/arduino.ino"
ProjectPath == "/data/arduino/project/build"
CachePath == "/data/arduino/project/cache"
HexPath == "/data/arduino/project/build/arduino.ino.hex"

----------------------------------------------------------------------------
(* JavaScript string primitives *)

Min(a, b) == IF a < b THEN a ELSE b
Max(a, b) == IF a > b THEN a ELSE b

\* String.prototype.substring(0, n)
Substring0(s, n) == SubSeq(s, 1, Min(Max(n, 0), Len(s)))

\* String.prototype.slice(a, b): negative indices count from the end
SliceIndex(s, i) == IF i < 0 THEN Max(Len(s) + i, 0) ELSE Min(i, Len(s))
Slice(s, a, b) == SubSeq(s, SliceIndex(s, a) + 1, SliceIndex(s, b))
SliceFrom(s, a) == SubSeq(s, SliceIndex(s, a) + 1, Len(s))

\* pattern p occurs in s at 0-based index i
MatchAt(s, i, p) == /\ i + Len(p) <= Len(s)
                    /\ SubSeq(s, i + 1, i + Len(p)) = p

\* String.prototype.search(/p1|p2|.../): index of the first match, or -1
Search(s, pats) ==
    LET hits == {i \in 0..(Len(s) - 1) : \E p \in pats : MatchAt(s, i, p)}
    IN IF hits = {} THEN -1 ELSE CHOOSE i \in hits : \A j \in hits : i <= j

\* JavaScript truthiness of a value that is a string or null
Truthy(v) == v # Null /\ v # ""

\* template literal `${n}` for a non-negative integer
RECURSIVE NumStr(_)
NumStr(n) ==
    IF n < 10 THEN SubSeq("0123456789", n + 1, n + 1)
    ELSE NumStr(n \div 10) \o SubSeq("0123456789", (n % 10) + 1, (n % 10) + 1)

\* template literal `${v}` for a string or null
Str(v) == v

----------------------------------------------------------------------------
(* Static tables and the board profile *)

\* lib/usb-id: 21-character PnP identifier prefix -> device name, Null on a miss
UsbId(pnpid) ==
    CASE pnpid = "USB\\VID_2341&PID_0036" -> "Arduino Leonardo"
      [] pnpid = "USB\\VID_2341&PID_8036" -> "Arduino Leonardo"
      [] pnpid = "USB\\VID_1B4F&PID_2B74" -> "Makey Makey"
      [] pnpid = "USB\\VID_1B4F&PID_2B75" -> "Makey Makey"
      [] OTHER -> Null

\* lib/firmware: fqbn -> file name of the realtime firmware
Firmware(f) ==
    CASE f = LEONARDO -> "leonardo.hex"
      [] f = MAKEYMAKEY -> "makeymakey.hex"
      [] OTHER -> "uno.hex"

\* this._config of the instance, as the caller supplies it for each board
Partno(f) == IF f = UNO THEN "atmega328p" ELSE "atmega32u4"
ProgrammerId(f) == IF f = UNO THEN "arduino" ELSE "avr109"
Baudrate(f) == IF f = UNO THEN 115200 ELSE 57600

\* the boards for which flash() runs the 1200-baud touch first
IsLeonardo(f) == f = LEONARDO
IsMakeymakey(f) == f = MAKEYMAKEY
\* variant: the touch is run for every board
TouchResetAny(f) == TRUE
TouchReset(f) == IsLeonardo(f) \/ IsMakeymakey(f)
TargetName(f) == IF IsLeonardo(f) THEN "Arduino Leonardo" ELSE "Makey Makey"
DiscoverError(f) ==
    IF IsLeonardo(f) THEN "cannot discover leonardo" ELSE "cannot discover makeymakey"

----------------------------------------------------------------------------
(* Inputs of the environment *)

PeripheralPaths == {"COM3"}
InitialBaudRates == {57600}
Locales == {"zh-CN", "en-US"}
Codes == {"void setup(){}"}

Device(p, id) == [path |-> p, pnpId |-> id]
Devices ==
    { Device("COM4", "USB\\VID_2341&PID_0036\\5&1"),
      Device("COM5", "USB\\VID_2341&PID_8036\\5&2"),
      Device("COM6", "USB\\VID_1B4F&PID_2B74\\5&3"),
      Device("COM8", "USB\\VID_1B4F&PID_2B75"),
      Device("COM7", "ACPI\\PNP0501\\1") }

\* what list() resolves to: null, or an array of at most MaxDevices peripherals
NullList == [isArray |-> FALSE, items |-> <<>>]
ArrayOf(items) == [isArray |-> TRUE, items |-> items]
ListResults ==
    {NullList} \cup {ArrayOf(s) : s \in UNION {[1..n -> Devices] : n \in 0..MaxDevices}}

BuildExitCodes == 0..5
FlashExitCodes == 0..2

BuilderStdoutChunks == {"Sketch uses 444 bytes"}
BuilderStderrChunks == {"error: x"}
AvrdudeStderrChunks == {"Writing | ## 100%"}
AvrdudeStdoutChunks == {"out"}

----------------------------------------------------------------------------
(* Device rediscovery: the callback given to this._list().then *)

NameOf(device) ==
    LET pnpid == Substring0(device.pnpId, PNPID_PREFIX)
    IN IF UsbId(pnpid) # Null THEN UsbId(pnpid) ELSE "Unknown device"

\* peripheral.forEach: every matching entry overwrites the stored path
RECURSIVE ScanFrom(_, _, _, _)
ScanFrom(list, i, target, path) ==
    IF i > Len(list) THEN path
    ELSE ScanFrom(list, i + 1, target,
                  IF NameOf(list[i]) = target THEN list[i].path ELSE path)

\* variant: the scan stops at the first matching entry
RECURSIVE FirstMatch(_, _, _, _)
FirstMatch(list, i, target, path) ==
    IF i > Len(list) THEN path
    ELSE IF NameOf(list[i]) = target THEN list[i].path
    ELSE FirstMatch(list, i + 1, target, path)
RediscoverFirst(list, target, stored) ==
    IF list.isArray THEN FirstMatch(list.items, 1, target, stored) ELSE stored

\* value of this._leonardoPath / this._makeymakeyPath after the callback
Rediscover(list, target, stored) ==
    IF list.isArray THEN ScanFrom(list.items, 1, target, stored) ELSE stored

\* whether the promise of leonardo() / makeymakey() is resolved or rejected
HandshakeResult(list, stored) ==
    IF list.isArray
    THEN IF stored = Null THEN "Failed" ELSE "Resolved"
    ELSE "Failed"

\* the -P operand of avrdude
PortOperand(lp, mp, pp) ==
    IF Truthy(lp) THEN lp ELSE IF Truthy(mp) THEN mp ELSE pp

\* variant: the firmwarePath argument is ignored
FlashOperandDefault(firmwarePath) == HexPath

\* the -U operand of avrdude
FlashOperand(firmwarePath) ==
    IF Truthy(firmwarePath) THEN firmwarePath ELSE HexPath

AvrdudeArgs(f, lp, mp, pp, firmwarePath) ==
    << "-C", AvrdudeConfigPath, "-v",
       "-p" \o Str(Partno(f)),
       "-c" \o Str(ProgrammerId(f)),
       "-P" \o Str(PortOperand(lp, mp, pp)),
       "-b" \o NumStr(Baudrate(f)),
       "-D",
       "-Uflash:w:" \o Str(FlashOperand(firmwarePath)) \o ":i" >>

RealtimeFirmwarePath(f) == "/tools/RealtimeFirmware/arduino/" \o Firmware(f)

----------------------------------------------------------------------------
(* arduino-builder arguments *)

ExtensionsLibraries == "/extensions/libraries/Arduino"

\* Array.prototype.splice(at, 0, a, b)
Splice2(seq, at, a, b) ==
    SubSeq(seq, 1, Min(at, Len(seq))) \o <<a, b>> \o SubSeq(seq, Min(at, Len(seq)) + 1, Len(seq))

BaseBuildArgs(f) ==
    << "-compile", "-logger=human",
       "-hardware", ArduinoPath \o "/hardware",
       "-tools", ArduinoPath \o "/tools-builder",
       "-tools", ArduinoPath \o "/hardware/tools/avr",
       "-libraries", ArduinoPath \o "/libraries",
       "-fqbn", f,
       "-build-path", TempfilePath \o "/build",
       "-build-cache", TempfilePath \o "/cache",
       "-warnings=none", "-verbose", CodefilePath >>

\* variant: the extensions pair is spliced in behind the base libraries pair
BuildArgsAfterBase(f, extensionsExist) ==
    IF extensionsExist
    THEN Splice2(BaseBuildArgs(f), 10, "-libraries", ExtensionsLibraries)
    ELSE BaseBuildArgs(f)

BuildArgs(f, extensionsExist) ==
    IF extensionsExist
    THEN Splice2(BaseBuildArgs(f), 6, "-libraries", ExtensionsLibraries)
    ELSE BaseBuildArgs(f)

----------------------------------------------------------------------------
(* Output handlers *)

InsertStr(soure, start, newStr) ==
    Slice(soure, 0, start) \o newStr \o SliceFrom(soure, start)

SKETCH_SUMMARY == {"Sketch uses", "Global variables"}
AVRDUDE_STDOUT_GREEN_START == {"Reading |", "Writing |"}
AVRDUDE_STDOUT_GREEN_END == {"%"}
AVRDUDE_STDOUT_WHITE == {"avrdude done"}
AVRDUDE_STDOUT_RED_START == {"can't open device", "programmer is not responding"}

BuilderStderrText(data) == AnsiRed \o data

BuilderStdoutText(data) ==
    IF Search(data, SKETCH_SUMMARY) = -1
    THEN AnsiClear \o data
    ELSE AnsiGreenDark \o data

TagBefore(data, pats, tag) ==
    IF Search(data, pats) # -1 THEN InsertStr(data, Search(data, pats), tag) ELSE data

\* variant: the tag is put in front of the match
TagAfterAtMatch(data, pats, tag) ==
    IF Search(data, pats) # -1 THEN InsertStr(data, Search(data, pats), tag) ELSE data

TagAfter(data, pats, tag) ==
    IF Search(data, pats) # -1 THEN InsertStr(data, Search(data, pats) + 1, tag) ELSE data

AvrdudeStderrText(data) ==
    LET d1 == TagBefore(data, AVRDUDE_STDOUT_GREEN_START, AnsiGreenDark)
        d2 == TagAfter(d1, AVRDUDE_STDOUT_GREEN_END, AnsiClear)
        d3 == TagBefore(d2, AVRDUDE_STDOUT_WHITE, AnsiClear)
        d4 == TagBefore(d3, AVRDUDE_STDOUT_RED_START, AnsiRed)
    IN d4

AvrdudeStdoutText(data) == data

\* a switch that matches no case settles nothing
NoCase == [state |-> "none", value |-> ""]

\* the switch of the builder's exit handler
BuildOutcome(outCode) ==
    CASE outCode = 0 -> [state |-> "resolved", value |-> "Success"]
      [] outCode = 1 -> [state |-> "rejected", value |-> "Build failed"]
      [] outCode = 2 -> [state |-> "rejected", value |-> "Sketch not found"]
      [] outCode = 3 -> [state |-> "rejected",
                         value |-> "Invalid (argument for) commandline optiond"]
      [] outCode = 4 -> [state |-> "rejected",
                         value |-> "Preference passed to --get-pref does not exist"]
      [] OTHER -> NoCase

\* the switch of avrdude's exit handler
FlashOutcome(code) ==
    CASE code = 0 -> [state |-> "resolved", value |-> "Success"]
      [] code = 1 -> [state |-> "rejected", value |-> "avrdude failed to flash"]
      [] OTHER -> NoCase

\* variant: Success is resolved in the exit handler for every board
SettleWaitNone(f) == None

\* the timer avrdude's exit handler sets before resolve('Success'); None: no timer
SettleWait(f) ==
    IF IsLeonardo(f) THEN SETTLE_WAIT
    ELSE IF IsMakeymakey(f) THEN SETTLE_WAIT
    ELSE None

----------------------------------------------------------------------------
(* Operations: the promise, the child process and the pending callbacks *)

Pending == [state |-> "pending", value |-> ""]
Rejected(msg) == [state |-> "rejected", value |-> msg]

NewOp(kind) ==
    [ kind |-> kind,        \* "build" or "flash"
      pc |-> "start",       \* the callback the operation waits for
      outcome |-> Pending,  \* state of the promise returned to the caller
      proc |-> "none",      \* child process: none, running, exited
      left |-> 0,           \* chunks its pipes may still deliver; 0 once they are closed
      code |-> None,        \* exit code given to the exit handler
      write |-> "none",     \* the osLocale().then callback: none, pending, done, failed
      src |-> Null,         \* the code argument captured by that callback
      args |-> <<>>,        \* arguments given to spawn
      hs |-> "none",        \* outcome of leonardo() / makeymakey()
      fw |-> Null ]         \* the firmwarePath argument of flash()

\* resolve / reject: only the first settlement of a promise has an effect
Settle(r, o) ==
    IF r.outcome.state = "pending" /\ o.state # "none"
    THEN [r EXCEPT !.outcome = o]
    ELSE r

Spawned(r, args) ==
    [r EXCEPT !.proc = "running", !.left = MaxChunks, !.args = args, !.pc = "run"]

\* Once the caller starts the next operation, an older one keeps only its
\* process and its pending write; its output is no longer recorded in sink.
Archive(r) ==
    [r EXCEPT !.pc = "old",
              !.left = 0,
              !.outcome = [state |-> "settled", value |-> ""],
              !.code = None,
              !.args = <<>>,
              !.hs = "none",
              !.fw = Null,
              !.write = IF r.write = "pending" THEN "pending" ELSE "none",
              !.src = IF r.write = "pending" THEN r.src ELSE Null]

\* no callback of the operation can run any more
Finished(r) == r.proc # "running" /\ r.left = 0 /\ r.write # "pending"

RECURSIVE ArchiveAll(_)
ArchiveAll(s) ==
    IF s = <<>> THEN <<>>
    ELSE (IF Finished(Head(s)) THEN <<>> ELSE <<Archive(Head(s))>>) \o ArchiveAll(Tail(s))

Cur == ops[Len(ops)]
HasCur == ops # <<>>
Idle == IF ops = <<>> THEN TRUE ELSE Cur.outcome.state # "pending"
\* the continuation of flash is queued as a promise job: only promise jobs run before it
Resuming == IF ops = <<>> THEN FALSE ELSE Cur.pc = "resume"

NoScan == [state |-> "none", paths |-> <<>>]

\* the caller starts an operation once the previous outcome was delivered
Begin(r, events) ==
    /\ Idle
    /\ Len(ArchiveAll(ops)) < MaxOps
    /\ ops' = Append(ArchiveAll(ops), r)
    /\ sink' = <<>>
    /\ chunks' = <<>>
    /\ trace' = events
    /\ found' = NoScan
    /\ now' = 0
    /\ exitAt' = None
    /\ doneAt' = IF r.outcome.state = "pending" THEN None ELSE 0

\* a callback of operation k leaves it as r
Update(k, r) ==
    /\ ops' = [ops EXCEPT ![k] = r]
    /\ doneAt' = IF k = Len(ops) /\ ops[k].outcome.state = "pending"
                    /\ r.outcome.state # "pending"
                 THEN now ELSE doneAt

Log(k, events) == trace' = IF k = Len(ops) THEN trace \o events ELSE trace

Init ==
    /\ fqbn \in Fqbns
    /\ peripheralPath \in PeripheralPaths
    /\ leonardoPath = Null
    /\ makeymakeyPath = Null
    /\ baudRate \in InitialBaudRates
    /\ dirs = {}
    /\ codefile = [encoding |-> "none", code |-> Null]
    /\ locale \in Locales
    /\ ops = <<>>
    /\ sink = <<>>
    /\ chunks = <<>>
    /\ trace = <<>>
    /\ found = NoScan
    /\ now = 0
    /\ exitAt = None
    /\ doneAt = None

----------------------------------------------------------------------------
(* build(code) *)

\* the executor of build's promise: mkdirSync, osLocale(), spawn
Build(code, extensionsExist) ==
    /\ dirs' = dirs \cup {ProjectPath, CachePath}
    /\ Begin(Spawned([NewOp("build") EXCEPT !.write = "pending", !.src = code],
                     BuildArgs(fqbn, extensionsExist)),
             << <<"osLocale", "">>, <<"spawn", ArduinoBuilderPath>> >>)
    /\ UNCHANGED <<fqbn, peripheralPath, leonardoPath, makeymakeyPath, baudRate,
                   codefile, locale>>

\* iconv.encode(code, 'gb2312') when the locale is zh-CN, then fs.writeFileSync
WrittenFile(loc, code) ==
    [encoding |-> IF loc = "zh-CN" THEN "gb2312" ELSE "utf8", code |-> code]

\* osLocale().then(locale => ...): encode and write the sketch
LocaleThen(k, ok) ==
    /\ k \in 1..Len(ops)
    /\ ops[k].write = "pending"
    /\ IF ok
       THEN /\ codefile' = WrittenFile(locale, ops[k].src)
            /\ Update(k, [ops[k] EXCEPT !.write = "done"])
       ELSE /\ codefile' = codefile
            /\ Update(k, Settle([ops[k] EXCEPT !.write = "failed"], Rejected("EIO")))
    /\ Log(k, << <<"writeFile", IF ok THEN "ok" ELSE "EIO">> >>)
    /\ UNCHANGED <<fqbn, peripheralPath, leonardoPath, makeymakeyPath, baudRate, dirs,
                   locale, sink, chunks, found, now, exitAt>>

\* a data event of one pipe of the current operation's process
DataEvent(kind, data, text) ==
    /\ HasCur
    /\ Cur.kind = kind
    /\ Cur.left > 0
    /\ ops' = [ops EXCEPT ![Len(ops)].left = @ - 1]
    /\ sink' = Append(sink, text)
    /\ chunks' = Append(chunks, data)
    /\ UNCHANGED <<fqbn, peripheralPath, leonardoPath, makeymakeyPath, baudRate, dirs,
                   codefile, locale, trace, found, now, exitAt, doneAt>>

BuilderStderr(data) == DataEvent("build", data, BuilderStderrText(data))

BuilderStdout(data) == DataEvent("build", data, BuilderStdoutText(data))

\* arduinoBuilder.on('exit', outCode => ...)
BuilderExit(k, outCode) ==
    /\ ~Resuming
    /\ k \in 1..Len(ops)
    /\ ops[k].kind = "build"
    /\ ops[k].proc = "running"
    /\ sink' = IF k = Len(ops) THEN Append(sink, AnsiClear \o "\r\n") ELSE sink
    /\ Update(k, Settle([ops[k] EXCEPT !.proc = "exited",
                                       !.code = IF k = Len(ops) THEN outCode ELSE None],
                        BuildOutcome(outCode)))
    /\ exitAt' = IF k = Len(ops) THEN now ELSE exitAt
    /\ UNCHANGED <<fqbn, peripheralPath, leonardoPath, makeymakeyPath, baudRate, dirs,
                   codefile, locale, chunks, trace, found, now>>

\* the pipes of an ended process close; nothing in the source listens to it
StreamsClose ==
    /\ HasCur
    /\ Cur.proc = "exited"
    /\ Cur.left > 0
    /\ ops' = [ops EXCEPT ![Len(ops)].left = 0]
    /\ UNCHANGED <<fqbn, peripheralPath, leonardoPath, makeymakeyPath, baudRate, dirs,
                   codefile, locale, sink, chunks, trace, found, now, exitAt, doneAt>>

----------------------------------------------------------------------------
(* flash(firmwarePath) *)

\* new Promise(...) of flash: spawn avrdude on the port chosen from the instance fields
SpawnAvrdude(r, lp, mp) ==
    Spawned(r, AvrdudeArgs(fqbn, lp, mp, peripheralPath, r.fw))

\* variant: the handshake works on a copy of the peripheral parameters
FlashCallKeepsBaudRate(firmwarePath) ==
    /\ IF TouchReset(fqbn)
       THEN Begin([NewOp("flash") EXCEPT !.fw = firmwarePath, !.pc = "connect"],
                  << <<"connect", NumStr(TOUCH_BAUD)>> >>)
       ELSE Begin(SpawnAvrdude([NewOp("flash") EXCEPT !.fw = firmwarePath],
                               leonardoPath, makeymakeyPath),
                  << <<"spawn", AvrdudePath>> >>)
    /\ UNCHANGED <<fqbn, peripheralPath, leonardoPath, makeymakeyPath, baudRate, dirs,
                   codefile, locale>>

\* flash up to its first suspension: the touch starts, or avrdude is spawned at once
FlashCall(firmwarePath) ==
    /\ IF TouchReset(fqbn)
       THEN /\ baudRate' = TOUCH_BAUD
            /\ Begin([NewOp("flash") EXCEPT !.fw = firmwarePath, !.pc = "connect"],
                     << <<"connect", NumStr(TOUCH_BAUD)>> >>)
       ELSE /\ baudRate' = baudRate
            /\ Begin(SpawnAvrdude([NewOp("flash") EXCEPT !.fw = firmwarePath],
                                  leonardoPath, makeymakeyPath),
                     << <<"spawn", AvrdudePath>> >>)
    /\ UNCHANGED <<fqbn, peripheralPath, leonardoPath, makeymakeyPath, dirs, codefile,
                   locale>>

\* flash() with the default firmwarePath = null
Flash == FlashCall(Null)

FlashRealtimeFirmware == FlashCall(RealtimeFirmwarePath(fqbn))

\* a step of the handshake of the current operation that touches only the operation
HandshakeStep(r, events, ms) ==
    /\ ops' = [ops EXCEPT ![Len(ops)] = r]
    /\ trace' = trace \o events
    /\ now' = now + ms
    /\ doneAt' = IF r.outcome.state # "pending" THEN now + ms ELSE doneAt
    /\ UNCHANGED <<fqbn, peripheralPath, leonardoPath, makeymakeyPath, baudRate, dirs,
                   codefile, locale, sink, chunks, found, exitAt>>

\* variant: the failure of connect is reported and the handshake goes on
ConnectDoneGoesOn(ok) ==
    /\ HasCur
    /\ Cur.pc = "connect"
    /\ IF ok
       THEN HandshakeStep([Cur EXCEPT !.pc = "openWait"], <<>>, 0)
       ELSE HandshakeStep(Settle([Cur EXCEPT !.pc = "openWait"], Rejected("connect failed")),
                          <<>>, 0)

\* await this._connect(peripheralParams, true)
ConnectDone(ok) ==
    /\ HasCur
    /\ Cur.pc = "connect"
    /\ IF ok
       THEN HandshakeStep([Cur EXCEPT !.pc = "openWait"], <<>>, 0)
       ELSE HandshakeStep(Settle([Cur EXCEPT !.pc = "done"], Rejected("connect failed")),
                          <<>>, 0)

\* variant: the port is left open after the first wait
OpenWaitSkipsDisconnect ==
    /\ HasCur
    /\ Cur.pc = "openWait"
    /\ HandshakeStep([Cur EXCEPT !.pc = "closeWait"],
                     << <<"wait", NumStr(OPEN_WAIT)>> >>, OPEN_WAIT)

\* await wait(100), then this._disconnect() is called
OpenWait ==
    /\ HasCur
    /\ Cur.pc = "openWait"
    /\ HandshakeStep([Cur EXCEPT !.pc = "disconnect"],
                     << <<"wait", NumStr(OPEN_WAIT)>>, <<"disconnect", "">> >>, OPEN_WAIT)

\* await this._disconnect()
DisconnectDone(ok) ==
    /\ HasCur
    /\ Cur.pc = "disconnect"
    /\ IF ok
       THEN HandshakeStep([Cur EXCEPT !.pc = "closeWait"], <<>>, 0)
       ELSE HandshakeStep(Settle([Cur EXCEPT !.pc = "done"], Rejected("disconnect failed")),
                          <<>>, 0)

\* await wait(1000), then this._list() is called
CloseWait ==
    /\ HasCur
    /\ Cur.pc = "closeWait"
    /\ HandshakeStep([Cur EXCEPT !.pc = "list"],
                     << <<"wait", NumStr(CLOSE_WAIT)>>, <<"list", "">> >>, CLOSE_WAIT)

\* the entries of a list that resolve to the target name, in scan order
RECURSIVE MatchingPaths(_, _)
MatchingPaths(items, target) ==
    IF items = <<>> THEN <<>>
    ELSE (IF NameOf(Head(items)) = target THEN <<Head(items).path>> ELSE <<>>)
         \o MatchingPaths(Tail(items), target)

Scanned(list) ==
    [state |-> IF list.isArray THEN "array" ELSE "null",
     paths |-> MatchingPaths(list.items, TargetName(fqbn))]

\* variant: a rejected handshake is swallowed and avrdude is spawned anyway
AfterHandshakeIgnoresFailure(r, result, lp, mp) ==
    SpawnAvrdude([r EXCEPT !.hs = result], lp, mp)

\* what flash does once leonardo() / makeymakey() has settled
AfterHandshake(r, result, lp, mp) ==
    IF result = "Resolved"
    THEN SpawnAvrdude([r EXCEPT !.hs = result], lp, mp)
    ELSE Settle([r EXCEPT !.hs = result, !.pc = "done"], Rejected(DiscoverError(fqbn)))

\* the two path fields once the scan of list has run
LeonardoPathAfter(list) ==
    IF IsLeonardo(fqbn)
    THEN Rediscover(list, TargetName(fqbn), leonardoPath)
    ELSE leonardoPath

MakeymakeyPathAfter(list) ==
    IF IsLeonardo(fqbn)
    THEN makeymakeyPath
    ELSE Rediscover(list, TargetName(fqbn), makeymakeyPath)

\* the current operation once the callback of list() and, after it, the
\* continuation of flash have run
AfterList(list) ==
    LET lp == LeonardoPathAfter(list)
        mp == MakeymakeyPathAfter(list)
        result == HandshakeResult(list, IF IsLeonardo(fqbn) THEN lp ELSE mp)
    IN AfterHandshake(Cur, result, lp, mp)

\* this._list().then(peripheral => ...): the scan stores the path and settles the
\* promise of leonardo() / makeymakey(); flash, suspended at its await, resumes
\* in a later promise job
ListDone(list) ==
    /\ HasCur
    /\ Cur.pc = "list"
    /\ leonardoPath' = LeonardoPathAfter(list)
    /\ makeymakeyPath' = MakeymakeyPathAfter(list)
    /\ found' = Scanned(list)
    /\ ops' = [ops EXCEPT ![Len(ops)] =
                  [Cur EXCEPT !.pc = "resume",
                              !.hs = HandshakeResult(list,
                                        IF IsLeonardo(fqbn) THEN LeonardoPathAfter(list)
                                        ELSE MakeymakeyPathAfter(list))]]
    /\ UNCHANGED <<fqbn, peripheralPath, baudRate, dirs, codefile, locale, sink, chunks,
                   trace, now, exitAt, doneAt>>

\* flash resumes after await this.leonardo() / await this.makeymakey(): it creates
\* the promise that spawns avrdude, or rejects with the error of the handshake
FlashResume ==
    /\ HasCur
    /\ Cur.pc = "resume"
    /\ LET r == AfterHandshake(Cur, Cur.hs, leonardoPath, makeymakeyPath)
       IN /\ ops' = [ops EXCEPT ![Len(ops)] = r]
          /\ trace' = IF r.proc = "running"
                      THEN Append(trace, <<"spawn", AvrdudePath>>)
                      ELSE trace
          /\ doneAt' = IF r.outcome.state # "pending" THEN now ELSE doneAt
    /\ UNCHANGED <<fqbn, peripheralPath, leonardoPath, makeymakeyPath, baudRate, dirs,
                   codefile, locale, sink, chunks, found, now, exitAt>>

\* this._list() rejects: no handler is attached, the promise of the handshake stays pending
ListFail ==
    /\ HasCur
    /\ Cur.pc = "list"
    /\ HandshakeStep([Cur EXCEPT !.pc = "hung"], <<>>, 0)

AvrdudeStderr(data) == DataEvent("flash", data, AvrdudeStderrText(data))

AvrdudeStdout(data) == DataEvent("flash", data, AvrdudeStdoutText(data))

\* variant: avrdude is started once more after its first failure
AvrdudeExitRetries(code) ==
    /\ HasCur
    /\ Cur.kind = "flash"
    /\ Cur.proc = "running"
    /\ LET r == [Cur EXCEPT !.proc = "exited", !.code = code]
       IN IF code = 1 /\ Cur.code = None
          THEN /\ Update(Len(ops), [Cur EXCEPT !.code = code])
               /\ trace' = Append(trace, <<"spawn", AvrdudePath>>)
               /\ exitAt' = exitAt
          ELSE /\ IF code = 0 /\ SettleWait(fqbn) # None
                  THEN Update(Len(ops), [r EXCEPT !.pc = "settle"])
                  ELSE Update(Len(ops), Settle([r EXCEPT !.pc = "done"], FlashOutcome(code)))
               /\ trace' = trace
               /\ exitAt' = now
    /\ UNCHANGED <<fqbn, peripheralPath, leonardoPath, makeymakeyPath, baudRate, dirs,
                   codefile, locale, sink, chunks, found, now>>

\* avrdude.on('exit', code => ...)
AvrdudeExit(code) ==
    /\ HasCur
    /\ Cur.kind = "flash"
    /\ Cur.proc = "running"
    /\ LET r == [Cur EXCEPT !.proc = "exited", !.code = code]
       IN IF code = 0 /\ SettleWait(fqbn) # None
          THEN Update(Len(ops), [r EXCEPT !.pc = "settle"])
          ELSE Update(Len(ops), Settle([r EXCEPT !.pc = "done"], FlashOutcome(code)))
    /\ exitAt' = now
    /\ UNCHANGED <<fqbn, peripheralPath, leonardoPath, makeymakeyPath, baudRate, dirs,
                   codefile, locale, sink, chunks, trace, found, now>>

\* wait(1000).then(() => resolve('Success'))
SettleTimer ==
    /\ HasCur
    /\ Cur.pc = "settle"
    /\ HandshakeStep(Settle([Cur EXCEPT !.pc = "done"], FlashOutcome(Cur.code)),
                     <<>>, SettleWait(fqbn))

----------------------------------------------------------------------------

Next ==
    \/ \E code \in Codes, ext \in BOOLEAN : Build(code, ext)
    \/ \E k \in 1..MaxOps, ok \in BOOLEAN : LocaleThen(k, ok)
    \/ \E data \in BuilderStderrChunks : BuilderStderr(data)
    \/ \E data \in BuilderStdoutChunks : BuilderStdout(data)
    \/ \E k \in 1..MaxOps, outCode \in BuildExitCodes : BuilderExit(k, outCode)
    \/ StreamsClose
    \/ Flash
    \/ FlashRealtimeFirmware
    \/ \E ok \in BOOLEAN : ConnectDone(ok)
    \/ OpenWait
    \/ \E ok \in BOOLEAN : DisconnectDone(ok)
    \/ CloseWait
    \/ \E list \in ListResults : ListDone(list)
    \/ FlashResume
    \/ ListFail
    \/ \E data \in AvrdudeStderrChunks : AvrdudeStderr(data)
    \/ \E data \in AvrdudeStdoutChunks : AvrdudeStdout(data)
    \/ \E code \in FlashExitCodes : AvrdudeExit(code)
    \/ SettleTimer

Spec == Init /\ [][Next]_vars

----------------------------------------------------------------------------
(* avrdude's error stream: flash() on a board that needs no handshake, with a
   process that writes more than one chunk *)

MaxStderr == 2     \* chunks avrdude writes to its error stream

ProgressChunks ==
    { "Writing | ## 100%",
      "Reading | ##",
      "avrdude: 45% ",
      "# 50% ## 100%",
      "100% 0.0s Writing | # 100%",
      "Reading | # 100% Writing | # 100%",
      "%Reading |",
      "100%avrdude done",
      "avrdude done.  Thank you.",
      "ser_open(): can't open device",
      "programmer is not responding",
      "avrdude: verifying ...",
      "Writing | # 100% avrdude done. can't open device" }

\* the state in which flash() on the Uno leaves a new instance
ClassifyInit ==
    /\ fqbn = UNO
    /\ peripheralPath \in PeripheralPaths
    /\ leonardoPath = Null
    /\ makeymakeyPath = Null
    /\ baudRate \in InitialBaudRates
    /\ dirs = {}
    /\ codefile = [encoding |-> "none", code |-> Null]
    /\ locale \in Locales
    /\ ops = << [SpawnAvrdude(NewOp("flash"), Null, Null) EXCEPT !.left = MaxStderr] >>
    /\ sink = <<>>
    /\ chunks = <<>>
    /\ trace = << <<"spawn", AvrdudePath>> >>
    /\ found = NoScan
    /\ now = 0
    /\ exitAt = None
    /\ doneAt = None

ClassifyNext ==
    \/ \E data \in ProgressChunks : AvrdudeStderr(data)
    \/ \E code \in FlashExitCodes : AvrdudeExit(code)

ClassifySpec == ClassifyInit /\ [][ClassifyNext]_vars

----------------------------------------------------------------------------
(* Properties *)

TouchBoards == {LEONARDO, MAKEYMAKEY}
InFlash == HasCur /\ Cur.kind = "flash"
InBuild == HasCur /\ Cur.kind = "build"
\* the -P argument given to avrdude
PortArg == Cur.args[6]
Last(seq) == seq[Len(seq)]
DiscoverFailure ==
    [state |-> "rejected",
     value |-> IF fqbn = LEONARDO THEN "cannot discover leonardo"
               ELSE "cannot discover makeymakey"]
Success == [state |-> "resolved", value |-> "Success"]

\* C1: on a touch-reset board, a flash whose own rescan holds no entry that
\* resolves to the target name, once it has resumed after the handshake, has
\* failed with the device-not-found error and has spawned no programmer, so no
\* path found by an earlier flash reaches the programmer.
C1_OwnResolution ==
    (InFlash /\ fqbn \in TouchBoards /\ found.state # "none" /\ found.paths = <<>>)
        => /\ Cur.args = <<>>
           /\ Cur.proc = "none"
           /\ ~Resuming => Cur.outcome = DiscoverFailure

\* C2: in build, the builder is spawned only once the write of the sketch has
\* completed, and a failed write leaves the builder unspawned.
C2_WriteBeforeSpawn ==
    InBuild => /\ (Cur.proc # "none" => Cur.write = "done")
               /\ (Cur.write = "failed" => Cur.proc = "none")

\* C3: once the process of an operation has exited and no settle timer is
\* pending, the outcome has been delivered, and an exit code outside the mapped
\* set (build 0-4, flash 0-1) has produced a failure.
C3_ExitDelivers ==
    (HasCur /\ Cur.proc = "exited" /\ Cur.pc # "settle")
        => /\ Cur.outcome.state \in {"resolved", "rejected"}
           /\ (Cur.kind = "build" /\ Cur.code \notin 0..4 => Cur.outcome.state = "rejected")
           /\ (Cur.kind = "flash" /\ Cur.code \notin 0..1 => Cur.outcome.state = "rejected")

\* C4: on a board outside the touch-reset list, flash calls neither connect nor
\* disconnect nor list, and the programmer gets the peripheral path given at
\* construction.
C4_OtherBoardsDirect ==
    (InFlash /\ fqbn \notin TouchBoards)
        => /\ \A i \in DOMAIN trace : trace[i][1] \notin {"connect", "disconnect", "list"}
           /\ Cur.args # <<>>
           /\ PortArg = "-P" \o peripheralPath

C4_Witness ==
    /\ InFlash /\ fqbn = UNO /\ Cur.proc = "exited"
    /\ codefile.encoding # "none"
    /\ PortArg = "-PCOM3"

\* C5: on a touch-reset board the calls of a flash are, in this order: connect
\* at 1200 baud, a 100 ms wait, disconnect, a 1000 ms wait, list; the programmer
\* is spawned only after all of them, at least 1100 ms after the flash started.
HandshakeCalls ==
    << <<"connect", "1200">>, <<"wait", "100">>, <<"disconnect", "">>,
       <<"wait", "1000">>, <<"list", "">>, <<"spawn", AvrdudePath>> >>

C5_HandshakeOrder ==
    (InFlash /\ fqbn \in TouchBoards)
        => /\ Len(trace) <= Len(HandshakeCalls)
           /\ trace = SubSeq(HandshakeCalls, 1, Len(trace))
           /\ (Len(trace) >= 5 => now >= 1100)
           /\ (found.state # "none" => Len(trace) >= 5)
           /\ (Cur.args # <<>> => trace = HandshakeCalls /\ found.state # "none")

C5_Witness ==
    /\ InFlash /\ fqbn = MAKEYMAKEY /\ Cur.proc = "running"
    /\ trace = HandshakeCalls
    /\ now = 1100

\* C6: when the handshake of a flash ends in Failed, no programmer is spawned
\* for that flash, and once the flash has resumed its outcome is the
\* device-not-found failure.
C6_FailedHandshakeAborts ==
    (InFlash /\ Cur.hs = "Failed")
        => /\ Cur.proc = "none"
           /\ Cur.args = <<>>
           /\ ~Resuming => Cur.outcome = DiscoverFailure

C6_Witness ==
    /\ InFlash /\ Cur.hs = "Failed" /\ found.state = "array"
    /\ Cur.outcome = [state |-> "rejected", value |-> "cannot discover leonardo"]

\* C7: when the rescanned list holds entries that resolve to the target name,
\* the path of the last of them in scan order is stored and, once the flash has
\* resumed, is the port given to the programmer in that flash.
C7_LastMatchWins ==
    (InFlash /\ fqbn \in TouchBoards /\ found.state = "array" /\ found.paths # <<>>)
        => /\ (IF fqbn = LEONARDO THEN leonardoPath ELSE makeymakeyPath) = Last(found.paths)
           /\ Cur.hs = "Resolved"
           /\ ~Resuming => (Cur.args # <<>> /\ PortArg = "-P" \o Last(found.paths))

C7_Witness ==
    /\ InFlash /\ fqbn = LEONARDO
    /\ found.paths = <<"COM5", "COM4">>
    /\ Cur.proc = "running"
    /\ PortArg = "-PCOM4"
    /\ PortArg # "-P" \o peripheralPath

\* C8: the outcome of a build whose builder has exited is decided by the exit
\* code alone: 0 Success, 1 Build failed, 2 Sketch not found, 3 invalid
\* arguments, 4 unknown preference.
C8_OutcomeByExitCode ==
    (InBuild /\ Cur.proc = "exited" /\ Cur.code \in 0..4)
        => Cur.outcome =
             CASE Cur.code = 0 -> Success
               [] Cur.code = 1 -> [state |-> "rejected", value |-> "Build failed"]
               [] Cur.code = 2 -> [state |-> "rejected", value |-> "Sketch not found"]
               [] Cur.code = 3 -> [state |-> "rejected",
                                   value |-> "Invalid (argument for) commandline optiond"]
               [] Cur.code = 4 -> [state |-> "rejected",
                                   value |-> "Preference passed to --get-pref does not exist"]

\* C9: a flash whose programmer exited with 1 fails with "avrdude failed to
\* flash" at the exit; with 0 it succeeds, at the exit on other boards and
\* exactly 1000 ms after the exit on a touch-reset board.
C9_FlashOutcome ==
    (InFlash /\ Cur.proc = "exited")
        => /\ Cur.code = 1
                => /\ Cur.outcome = [state |-> "rejected", value |-> "avrdude failed to flash"]
                   /\ doneAt = exitAt
           /\ (Cur.code = 0 /\ fqbn \notin TouchBoards)
                => (Cur.outcome = Success /\ doneAt = exitAt)
           /\ (Cur.code = 0 /\ fqbn \in TouchBoards)
                => \/ Cur.outcome.state = "pending" /\ now = exitAt
                   \/ Cur.outcome = Success /\ doneAt = exitAt + 1000

C9_Witness ==
    /\ InFlash /\ fqbn = LEONARDO /\ Cur.code = 0
    /\ Cur.outcome = Success
    /\ exitAt = 1100
    /\ doneAt = 2100

\* C10: once the process of an operation has exited and the outcome has been
\* delivered, no further text is forwarded to the sink.
C10_NoOutputAfterOutcome ==
    [][(HasCur /\ Cur.proc = "exited" /\ Cur.outcome.state # "pending")
          => Len(sink') <= Len(sink)]_vars

\* the operations whose child process is still running
Running == {k \in DOMAIN ops : ops[k].proc = "running"}

\* C11: the caller starts an operation only once the previous outcome was
\* delivered, and then at most one process spawned by the instance is running
\* at any time, also after an operation that failed.
C11_OneProcess == Cardinality(Running) <= 1

\* the builder of the current operation was given the extensions libraries path
ExtensionsGiven == \E i \in DOMAIN Cur.args : Cur.args[i] = ExtensionsLibraries

\* C12: when the extensions libraries directory exists, the builder's arguments
\* hold the pair -libraries <extensions path> immediately after the pair
\* -libraries <base path>, and the other arguments keep their order.
C12_ExtensionsAfterBase ==
    (InBuild /\ ExtensionsGiven)
        => \E j \in 1..(Len(Cur.args) - 3) :
              /\ Cur.args[j] = "-libraries"
              /\ Cur.args[j + 1] = ArduinoPath \o "/libraries"
              /\ Cur.args[j + 2] = "-libraries"
              /\ Cur.args[j + 3] = ExtensionsLibraries
              /\ SubSeq(Cur.args, 1, j + 1) \o SubSeq(Cur.args, j + 4, Len(Cur.args))
                    = BaseBuildArgs(fqbn)

\* C12 as amended: the pair -libraries <extensions path> sits at index 6 of the
\* builder's arguments, right after the pair -tools <tools-builder> and ahead
\* of the pair -libraries <base path>; the other arguments keep their order.
C12_ExtensionsAtSix ==
    (InBuild /\ ExtensionsGiven)
        => /\ Len(Cur.args) = Len(BaseBuildArgs(fqbn)) + 2
           /\ SubSeq(Cur.args, 5, 8)
                 = <<"-tools", ArduinoPath \o "/tools-builder",
                     "-libraries", ExtensionsLibraries>>
           /\ SubSeq(Cur.args, 9, 12)
                 = <<"-tools", ArduinoPath \o "/hardware/tools/avr",
                     "-libraries", ArduinoPath \o "/libraries">>
           /\ SubSeq(Cur.args, 1, 6) \o SubSeq(Cur.args, 9, Len(Cur.args))
                 = BaseBuildArgs(fqbn)

C12_Witness ==
    /\ InBuild /\ ExtensionsGiven /\ Cur.proc = "exited"
    /\ Cur.args[7] = "-libraries"
    /\ Cur.args[8] = "/extensions/libraries/Arduino"
    /\ Cur.args[11] = "-libraries"
    /\ Cur.args[12] = "/tools/Arduino/libraries"

\* the -U argument given to avrdude
FlashArg == Cur.args[9]

\* C13: flashRealtimeFirmware hands flash the path of the table entry of the
\* board, and avrdude is then told to write that file and not the built
\* artifact; a flash called without a path writes the built artifact.
C13_FirmwareOperand ==
    (InFlash /\ Cur.args # <<>>)
        => /\ Cur.fw # Null
                => /\ Cur.fw = "/tools/RealtimeFirmware/arduino/" \o Firmware(fqbn)
                   /\ FlashArg = "-Uflash:w:" \o Cur.fw \o ":i"
                   /\ FlashArg # "-Uflash:w:" \o HexPath \o ":i"
           /\ Cur.fw = Null
                => FlashArg = "-Uflash:w:" \o HexPath \o ":i"

C13_Witness ==
    /\ InFlash /\ fqbn = LEONARDO /\ Cur.proc = "exited"
    /\ Cur.fw # Null
    /\ Cur.hs = "Resolved"
    /\ FlashArg = "-Uflash:w:/tools/RealtimeFirmware/arduino/leonardo.hex:i"

\* the forwarded texts of the current operation as one string
RECURSIVE Concat(_)
Concat(texts) == IF texts = <<>> THEN "" ELSE Head(texts) \o Concat(Tail(texts))
Forwarded == Concat(sink)

\* 0-based indices of the percent signs of s at or after index i
PercentsFrom(s, i) == {j \in i..(Len(s) - 1) : MatchAt(s, j, "%")}

\* C14: in the text forwarded from avrdude's error stream, every progress-start
\* tag that has a percent sign after it, in the same chunk or in a later one,
\* has a progress-end tag immediately after the first such percent sign.
C14_ProgressEnds ==
    \A i \in 0..(Len(Forwarded) - 1) :
        (MatchAt(Forwarded, i, AnsiGreenDark) /\ PercentsFrom(Forwarded, i) # {})
            => LET j == CHOOSE j \in PercentsFrom(Forwarded, i) :
                            \A k \in PercentsFrom(Forwarded, i) : j <= k
               IN MatchAt(Forwarded, j + 1, AnsiClear)

AvrdudeTags == {AnsiGreenDark, AnsiClear, AnsiRed}

\* s with every tag deleted
RECURSIVE Untagged(_)
Untagged(s) ==
    IF Len(s) = 0 THEN s
    ELSE IF \E t \in AvrdudeTags : MatchAt(s, 0, t)
         THEN Untagged(SubSeq(s, Len(CHOOSE t \in AvrdudeTags : MatchAt(s, 0, t)) + 1, Len(s)))
         ELSE SubSeq(s, 1, 1) \o Untagged(SubSeq(s, 2, Len(s)))

TagCount(s) ==
    Cardinality({q \in 0..(Len(s) - 1) : \E t \in AvrdudeTags : MatchAt(s, q, t)})

PatternsMatched(c) ==
    Cardinality({pats \in {AVRDUDE_STDOUT_GREEN_START, AVRDUDE_STDOUT_GREEN_END,
                           AVRDUDE_STDOUT_WHITE, AVRDUDE_STDOUT_RED_START} :
                    Search(c, pats) # -1})

\* in text o made from chunk c, tag stands right before the first match of pats
TaggedBeforeMatch(c, o, pats, tag) ==
    Search(c, pats) # -1
        => \E q \in 0..Len(o) :
              /\ MatchAt(o, q, tag)
              /\ Untagged(SubSeq(o, 1, q)) = SubSeq(c, 1, Search(c, pats))
              /\ \E p \in pats : MatchAt(o, q + Len(tag), p)

\* in text o made from chunk c, tag stands right after the first match of pats
TaggedAfterMatch(c, o, pats, tag) ==
    Search(c, pats) # -1
        => \E q \in 1..Len(o) :
              /\ MatchAt(o, q, tag)
              /\ Untagged(SubSeq(o, 1, q)) = SubSeq(c, 1, Search(c, pats) + 1)
              /\ \E p \in pats : MatchAt(o, q - Len(p), p)

\* C15: the text forwarded for a chunk of avrdude's error stream is the chunk
\* with one tag per matching pattern: the start, banner and error tags right
\* before the first match of their pattern in the chunk, the progress-end tag
\* right after the first percent sign; deleting the tags gives the chunk back,
\* and a chunk that matches no pattern is forwarded as it is.
C15_PositionalLossless ==
    /\ Len(sink) = Len(chunks)
    /\ \A i \in DOMAIN chunks :
          /\ Untagged(sink[i]) = chunks[i]
          /\ TagCount(sink[i]) = PatternsMatched(chunks[i])
          /\ TaggedBeforeMatch(chunks[i], sink[i], AVRDUDE_STDOUT_GREEN_START, AnsiGreenDark)
          /\ TaggedAfterMatch(chunks[i], sink[i], AVRDUDE_STDOUT_GREEN_END, AnsiClear)
          /\ TaggedBeforeMatch(chunks[i], sink[i], AVRDUDE_STDOUT_WHITE, AnsiClear)
          /\ TaggedBeforeMatch(chunks[i], sink[i], AVRDUDE_STDOUT_RED_START, AnsiRed)
          /\ PatternsMatched(chunks[i]) = 0 => sink[i] = chunks[i]

C15_Witness ==
    /\ InFlash /\ Len(chunks) = 2
    /\ chunks[1] = "avrdude: verifying ..."
    /\ sink[1] = "avrdude: verifying ..."
    /\ chunks[2] = "Writing | # 100% avrdude done. can't open device"
    /\ sink[2] = "<green_dark>Writing | # 100%<clear> <clear>avrdude done. <red>can't open device"

\* processes the current operation has started
SpawnCount == Cardinality({i \in DOMAIN trace : trace[i][1] = "spawn"})

\* C16: an operation whose outcome was delivered has started exactly one
\* process, whatever the exit code and whatever failed.
C16_ExactlyOneProcess ==
    (HasCur /\ Cur.outcome.state # "pending") => SpawnCount = 1

\* C16 as amended: an operation never starts a second process. A build and a
\* flash that has resumed after a resolved handshake have started exactly one,
\* whatever the exit code; a flash whose handshake has not resolved has started
\* none.
C16_NoRetry ==
    HasCur
        => /\ SpawnCount <= 1
           /\ InBuild => SpawnCount = 1
           /\ (InFlash /\ fqbn \notin TouchBoards) => SpawnCount = 1
           /\ (InFlash /\ Cur.hs = "Resolved" /\ ~Resuming) => SpawnCount = 1
           /\ (InFlash /\ fqbn \in TouchBoards /\ Cur.hs # "Resolved") => SpawnCount = 0
           /\ Cur.proc # "none" <=> SpawnCount = 1

C16_Witness ==
    /\ InFlash /\ fqbn = MAKEYMAKEY
    /\ Cur.proc = "exited" /\ Cur.code = 1 /\ Cur.left = 0
    /\ Cur.outcome = [state |-> "rejected", value |-> "avrdude failed to flash"]
    /\ SpawnCount = 1

EmptyList == ArrayOf(<<>>)

\* C17: whenever a flash waits for list(), a null result and an empty list
\* lead to the same outcome and to the same decision on spawning avrdude.
C17_NullAsEmpty ==
    (InFlash /\ Cur.pc = "list")
        => /\ AfterList(NullList).outcome = AfterList(EmptyList).outcome
           /\ AfterList(NullList).proc = AfterList(EmptyList).proc

\* C18: the handshake leaves 1200 in the shared peripheral parameters and
\* nothing restores it: once a flash on a touch-reset board is under way the
\* baud rate is 1200, it stays 1200 through every later step whether the flash
\* resolves or rejects, and on another board no step changes the baud rate.
C18_BaudRateFrame ==
    [][/\ (InFlash' /\ fqbn \in TouchBoards) => baudRate' = 1200
       /\ baudRate = 1200 => baudRate' = 1200
       /\ fqbn \notin TouchBoards => baudRate' = baudRate]_vars

C18_Witness ==
    /\ InFlash /\ fqbn = LEONARDO
    /\ Cur.hs = "Failed"
    /\ Cur.outcome = DiscoverFailure
    /\ leonardoPath = Null
    /\ baudRate = 1200

ConnectFailure == [state |-> "rejected", value |-> "connect failed"]

\* C19: a flash whose connect failed is rejected with the error of connect and
\* has done nothing after the connect call: no disconnect, no list, no scan
\* that could store a path, no avrdude.
C19_ConnectFailureStops ==
    (InFlash /\ Cur.outcome = ConnectFailure)
        => /\ trace = << <<"connect", "1200">> >>
           /\ found = NoScan
           /\ Cur.hs = "none"
           /\ Cur.proc = "none"
           /\ Cur.args = <<>>
           /\ Cur.pc = "done"

C19_Witness ==
    /\ InFlash /\ fqbn = MAKEYMAKEY
    /\ Cur.outcome = ConnectFailure
    /\ doneAt = 0
    /\ trace = << <<"connect", "1200">> >>
    /\ makeymakeyPath = Null

====
